---- MODULE Spec2Model ----
(***************************************************************************)
(* Firefly swarm optimizer: FireflySwarm::initialize, perform_iteration    *)
(* and the run driver perform_firefly_swarm_optimization                   *)
(* (src/src/algorithms/firefly/mod.rs).                                    *)
(*                                                                         *)
(* Objective values are modelled as integers (the oracle returns reals;    *)
(* NaN is outside the model), positions as points of a one-dimensional     *)
(* integer grid.  The Firefly type (Firefly::new, move_towards) and the    *)
(* oracle's evaluate live in files that are not part of src/; they are     *)
(* modelled from the specification's sections 3, 4.3 and 6.                *)
(***************************************************************************)
EXTENDS Integers, Sequences, FiniteSets

VARIABLES
    options,                        \* FireflyOptions of the run
    problem,                        \* the objective oracle
    fireflies,                      \* FireflySwarm.fireflies
    best_solution,                  \* FireflySwarm.best_solution
    iterations_since_improvement,   \* the driver's stagnation counter
    iterations_run,                 \* iterations of the driver's for loop performed so far
    result,                         \* IterationResult of the last perform_iteration
    returned,                       \* what perform_firefly_swarm_optimization returned
    pc                              \* position of the driver

vars == <<options, problem, fireflies, best_solution, iterations_since_improvement,
          iterations_run, result, returned, pc>>

\* ---------------------------------------------------------------- bounds
MaxSwarm == 3
MaxIter == 3
MaxStuck == 2

\* problem.bounds(): the (lower, upper) bounds of the search domain
Bounds == [lower |-> 0, upper |-> 2]

Positions == Bounds.lower..Bounds.upper
Values == 0..2
RngStates == 0..2

None == [none |-> TRUE]
NoConst == -1
RunInvalid == [error |-> "Invalid run: no best solution at all?!"]

\* ---------------------------------------------------------------- oracle
\* evaluate(position): the oracle's value at the position.  From iteration
\* const_after + 1 on (when const_after is set) the oracle answers one
\* constant for every input: the stagnation scenario of section 8.
Evaluate(p) ==
    IF problem.const_after # NoConst /\ iterations_run >= problem.const_after
    THEN problem.const_value
    ELSE problem.oracle[p]

\* ---------------------------------------------------------------- firefly
PointAndValue(position, value) == [position |-> position, value |-> value]

Jitter(rng) == rng - 1
NextRng(rng) == (rng + 1) % 3

Clamp(p) ==
    IF p < Bounds.lower THEN Bounds.lower ELSE IF p > Bounds.upper THEN Bounds.upper ELSE p

\* beta * (C.position - F.position), rounded away from zero
Attraction(d) == IF d >= 0 THEN (d + 1) \div 2 ELSE 0 - ((1 - d) \div 2)

\* Firefly::new: the cached value is the oracle's value at the position.
NewFirefly(rng, position) ==
    [position |-> position,
     objective_function_value |-> Evaluate(position),
     rng |-> rng]

\* Firefly::move_towards: attraction towards the brighter firefly plus one
\* jitter draw of the private RNG, kept in bounds, re-evaluated and adopted
\* unconditionally.
MoveTowards(f, brighter) ==
    LET new_position ==
            Clamp(f.position + Attraction(brighter.position - f.position) + Jitter(f.rng))
    IN  [position |-> new_position,
         objective_function_value |-> Evaluate(new_position),
         rng |-> NextRng(f.rng)]

\* ---------------------------------------------------------------- sorting
\* The comparator of both sort_unstable_by calls: second.total_cmp(first),
\* so that `first` may stand before `second` iff second's value <= first's.
SortOrderAscending(first, second) ==
    first.objective_function_value <= second.objective_function_value

SortOrder(first, second) ==
    second.objective_function_value <= first.objective_function_value

IsSorted(s) == \A i \in 1..Len(s) : \A j \in 1..Len(s) : i < j => SortOrder(s[i], s[j])

Permutations ==
    [n \in 0..(MaxSwarm + 1) |->
        {p \in [1..n -> 1..n] : \A i \in 1..n : \A j \in 1..n : p[i] = p[j] => i = j}]

SortUnstableNoSort(s) == {s}

\* sort_unstable_by: the order of equal elements is unspecified, so every
\* sorted arrangement of the input is a possible outcome.
SortUnstable(s) ==
    {t \in {[k \in 1..Len(s) |-> s[p[k]]] : p \in Permutations[Len(s)]} : IsSorted(t)}

\* ---------------------------------------------------------------- swarm
IsBetterThanMinimumOrEqual(best, value) ==
    best = None \/ value <= best.value

IsBetterThanMinimumNoNone(best, value) ==
    best # None /\ value < best.value

IsBetterThanMinimum(best, value) ==
    best = None \/ value < best.value

MarkNewGlobalMinimumLast(flag, improved) == improved

\* result.new_global_minimum after one firefly was finalized: set inside the
\* `if`, left alone otherwise
MarkNewGlobalMinimum(flag, improved) == flag \/ improved

MoveConditionOrEqual(brighter_firefly, new_main_firefly) ==
    brighter_firefly.objective_function_value <= new_main_firefly.objective_function_value

MoveCondition(brighter_firefly, new_main_firefly) ==
    brighter_firefly.objective_function_value < new_main_firefly.objective_function_value

\* Call by value: `value` is evaluated once and handed to Body, the way a
\* loop body works on the values of its variables.
WithValue(value, Body(_)) == CHOOSE r \in {Body(x) : x \in {value}} : TRUE

\* The inner loop from snapshot index j on: w is [firefly, calls], the working
\* copy and the snapshot indices it was moved towards so far.
RECURSIVE ScanFrom(_, _, _)
ScanFrom(snapshot, w, j) ==
    IF j > Len(snapshot) THEN w
    ELSE WithValue(IF MoveCondition(snapshot[j], w.firefly)
                   THEN [firefly |-> MoveTowards(w.firefly, snapshot[j]),
                         calls |-> Append(w.calls, j)]
                   ELSE w,
                   LAMBDA moved : ScanFrom(snapshot, moved, j + 1))

FirstScannedSkipsOne(main_firefly_index) == main_firefly_index + 2

\* .skip(main_firefly_index + 1) of the 0-based code, for 1-based index i
FirstScanned(main_firefly_index) == main_firefly_index + 1

\* The finalized working copy of firefly i of the snapshot.
NewMainFirefly(snapshot, i) ==
    ScanFrom(snapshot, [firefly |-> snapshot[i], calls |-> <<>>], FirstScanned(i))

\* The body of the outer loop for the finalized working copy w: the best
\* solution, the result flag and the new swarm after it.
Finalize(w, acc) ==
    LET v == w.firefly.objective_function_value
        improved == IsBetterThanMinimum(acc.best, v)
    IN  [best  |-> IF improved THEN PointAndValue(w.firefly.position, v) ELSE acc.best,
         flag  |-> MarkNewGlobalMinimum(acc.flag, improved),
         swarm |-> Append(acc.swarm, w.firefly),
         calls |-> Append(acc.calls, w.calls)]

\* The outer loop from index i on; acc is [best, flag, swarm, calls].
RECURSIVE IterationFrom(_, _, _)
IterationFrom(snapshot, i, acc) ==
    IF i > Len(snapshot) THEN acc
    ELSE WithValue(NewMainFirefly(snapshot, i),
            LAMBDA w : WithValue(Finalize(w, acc),
                          LAMBDA after : IterationFrom(snapshot, i + 1, after)))

\* perform_iteration up to (not including) the final sort.
PerformIteration(snapshot, best) ==
    IterationFrom(snapshot, 1, [best |-> best, flag |-> FALSE, swarm |-> <<>>, calls |-> <<>>])

\* UniformRNG::sample_multiple of the initial-position sampler: position k of
\* the reproducible sequence the seed [start, step] determines.
SamplePosition(seed, k) ==
    Bounds.lower + ((seed.start + seed.step * k) % (Bounds.upper - Bounds.lower + 1))

\* the derived seed of firefly k's private RNG
FireflySeed(k) == k % 3

InitialFirefliesOneMore(opts) ==
    [k \in 1..(opts.swarm_size + 1) |->
        NewFirefly(FireflySeed(k), SamplePosition(opts.in_bounds_random_generator_seed, k))]

\* the (0..options.swarm_size).map(...) of initialize, before the sort
InitialFireflies(opts) ==
    [k \in 1..opts.swarm_size |->
        NewFirefly(FireflySeed(k), SamplePosition(opts.in_bounds_random_generator_seed, k))]

\* ---------------------------------------------------------------- driver
NextSinceImprovementNoReset(count, new_global_minimum) == count + 1

NextSinceImprovement(count, new_global_minimum) ==
    IF new_global_minimum THEN 0 ELSE count + 1

BreakConditionStrict(count) == count > options.stuck_run_iterations_count

BreakCondition(count) == count >= options.stuck_run_iterations_count

OptionsSet ==
    [swarm_size : 0..MaxSwarm,
     maximum_iterations : 0..MaxIter,
     stuck_run_iterations_count : 0..MaxStuck,
     in_bounds_random_generator_seed : [start : Positions, step : Positions]]

\* no options are bound before the driver is called
NoOptions ==
    [swarm_size |-> 0, maximum_iterations |-> 0, stuck_run_iterations_count |-> 0,
     in_bounds_random_generator_seed |-> [start |-> 0, step |-> 0]]

InitWith(problems) ==
    /\ options = NoOptions
    /\ problem \in problems
    /\ fireflies = <<>>
    /\ best_solution = None
    /\ iterations_since_improvement = 0
    /\ iterations_run = 0
    /\ result = FALSE
    /\ returned = None
    /\ pc = "start"

Init ==
    InitWith([oracle : [Positions -> Values], const_after : {NoConst}, const_value : {0}])

\* The oracles of the stagnation scenario before the cutoff: a slope up, a
\* slope down and a valley.
ScenarioOracles ==
    {[p \in Positions |-> p - Bounds.lower],
     [p \in Positions |-> Bounds.upper - p],
     [p \in Positions |-> IF 2 * p = Bounds.lower + Bounds.upper THEN 0 ELSE 2]}

InitConst ==
    InitWith([oracle : ScenarioOracles, const_after : 0..MaxIter, const_value : Values])

\* The driver is called with its options: FireflySwarm::initialize and the
\* driver's counter.
Initialize ==
    /\ pc = "start"
    /\ \E opts \in OptionsSet :
         /\ options' = opts
         /\ \E sorted \in SortUnstable(InitialFireflies(opts)) : fireflies' = sorted
    /\ best_solution' = None
    /\ iterations_since_improvement' = 0
    /\ pc' = "loop"
    /\ UNCHANGED <<problem, iterations_run, result, returned>>

\* One pass of the driver's loop body: perform_iteration, the counter update
\* and the break test.
Iterate ==
    /\ pc = "loop"
    /\ iterations_run < options.maximum_iterations
    /\ IF Len(fireflies) # options.swarm_size
       THEN /\ pc' = "panicked"
            /\ UNCHANGED <<fireflies, best_solution, iterations_since_improvement,
                           iterations_run, result>>
       ELSE \E done \in {PerformIteration(fireflies, best_solution)} :
            \E count \in {NextSinceImprovement(iterations_since_improvement, done.flag)} :
                IF Len(done.swarm) # options.swarm_size
                THEN /\ pc' = "panicked"
                     /\ best_solution' = done.best
                     /\ UNCHANGED <<fireflies, iterations_since_improvement,
                                    iterations_run, result>>
                ELSE /\ \E sorted \in SortUnstable(done.swarm) : fireflies' = sorted
                     /\ best_solution' = done.best
                     /\ result' = done.flag
                     /\ iterations_since_improvement' = count
                     /\ iterations_run' = iterations_run + 1
                     /\ pc' = IF BreakCondition(count) THEN "end" ELSE "loop"
    /\ UNCHANGED <<options, problem, returned>>

\* The for loop's range is exhausted.
ExitLoop ==
    /\ pc = "loop"
    /\ iterations_run >= options.maximum_iterations
    /\ pc' = "end"
    /\ UNCHANGED <<options, problem, fireflies, best_solution, iterations_since_improvement,
                   iterations_run, result, returned>>

\* ok_or_else(...)? and Ok(Minimum::new(value, position))
Return ==
    /\ pc = "end"
    /\ returned' = IF best_solution = None THEN RunInvalid
                   ELSE [value |-> best_solution.value, position |-> best_solution.position]
    /\ pc' = "returned"
    /\ UNCHANGED <<options, problem, fireflies, best_solution, iterations_since_improvement,
                   iterations_run, result>>

Next == Initialize \/ Iterate \/ ExitLoop \/ Return

Spec == Init /\ [][Next]_vars

\* The stagnation scenario: the oracle turns constant after iteration const_after.
SpecConst == InitConst /\ [][Next]_vars

\* ================================================================ claims
Initialized == pc \in {"loop", "end", "returned"}
IterationStep == iterations_run' = iterations_run + 1
Value(f) == f.objective_function_value
Indices(s) == 1..Len(s)
MinValue(s) == CHOOSE v \in {Value(s[k]) : k \in Indices(s)} : \A k \in Indices(s) : v <= Value(s[k])
Copies(s, f) == Cardinality({k \in Indices(s) : s[k] = f})
Min2(a, b) == IF a <= b THEN a ELSE b

\* C1: the best-known solution changes only inside perform_iteration, to a
\* finalized firefly whose value is strictly lower than the current best (or
\* when no best exists yet); once set it never returns to none and its value
\* never increases.
C1_BestOnlyImproves ==
    [][/\ best_solution' # best_solution =>
            /\ pc = "loop" /\ IterationStep
            /\ best_solution' # None
            /\ best_solution = None \/ best_solution'.value < best_solution.value
            /\ \E k \in Indices(fireflies') :
                  /\ Value(fireflies'[k]) = best_solution'.value
                  /\ fireflies'[k].position = best_solution'.position
       /\ best_solution # None =>
            /\ best_solution' # None
            /\ best_solution'.value <= best_solution.value]_vars

\* C1 witness: a later iteration has replaced an existing best.
C1_Witness ==
    /\ iterations_run >= 2
    /\ result
    /\ best_solution # None
    /\ options.swarm_size >= 2

\* What is left of the run: the iterations the loop may still perform and the
\* driver's remaining steps.
Variant ==
    3 * (options.maximum_iterations - iterations_run)
        + (CASE pc = "start" -> 3 * MaxIter + 3 [] pc = "loop" -> 2 [] pc = "end" -> 1
             [] OTHER -> 0)

\* C2: the driver terminates (it can always step until it has returned, and
\* every step lowers a bounded variant) and follows the two-counter policy: the
\* counter is reset to 0 by an iteration that reported a new best and
\* incremented otherwise; a further iteration runs only while fewer than
\* maximum_iterations were run and the counter is below
\* stuck_run_iterations_count; the loop is left right after the first
\* iteration that brings the counter to stuck_run_iterations_count.
C2_StoppingPolicy ==
    /\ [](pc = "returned" \/ ENABLED Next)
    /\ [](Variant >= 0)
    /\ [](iterations_run <= options.maximum_iterations)
    /\ [](pc = "loop" /\ iterations_run >= 1 =>
            iterations_since_improvement < options.stuck_run_iterations_count)
    /\ [][/\ Variant' < Variant
          /\ iterations_run' # iterations_run =>
                /\ IterationStep
                /\ iterations_run < options.maximum_iterations
                /\ iterations_run >= 1 =>
                      iterations_since_improvement < options.stuck_run_iterations_count
                /\ iterations_since_improvement' =
                      IF result' THEN 0 ELSE iterations_since_improvement + 1
                /\ pc' = "end" <=>
                      iterations_since_improvement' >= options.stuck_run_iterations_count]_vars

\* C2 witness: a run cut short by stagnation after an improvement-free iteration.
C2_Witness ==
    /\ pc = "returned"
    /\ iterations_run >= 2
    /\ iterations_run < options.maximum_iterations
    /\ iterations_since_improvement >= 1
    /\ iterations_since_improvement = options.stuck_run_iterations_count

\* C3: the run-invalid error is returned iff no best-known solution exists
\* when the loop ends, which happens exactly when maximum_iterations = 0 or
\* swarm_size = 0; otherwise the best-known (value, position) is returned.
C3_RunInvalid ==
    pc = "returned" =>
        /\ returned = RunInvalid <=> best_solution = None
        /\ returned = RunInvalid <=>
              (options.maximum_iterations = 0 \/ options.swarm_size = 0)
        /\ returned # RunInvalid =>
              returned = [value |-> best_solution.value, position |-> best_solution.position]

\* C3 witness: iterations were run on an empty swarm and the run is invalid.
C3_Witness ==
    /\ pc = "returned"
    /\ returned = RunInvalid
    /\ options.swarm_size = 0
    /\ iterations_run >= 1

\* C4 as stated, on the configurations section 6 calls valid (swarm_size,
\* maximum_iterations and stuck_run_iterations_count positive) and for a
\* cutoff k >= 1: with the oracle constant after iteration k the run performs
\* at most k + stuck_run_iterations_count iterations, and never more than
\* maximum_iterations.
C4_StagnationCutoff ==
    (/\ options.swarm_size >= 1
     /\ options.maximum_iterations >= 1
     /\ options.stuck_run_iterations_count >= 1
     /\ problem.const_after >= 1) =>
        /\ iterations_run <= problem.const_after + options.stuck_run_iterations_count
        /\ iterations_run <= options.maximum_iterations

\* C4 amended: with the oracle constant after iteration k the run performs at
\* most k + 1 + stuck_run_iterations_count iterations (iteration k + 1 can
\* still report a new best), and never more than maximum_iterations.
C4_StagnationCutoffAmended ==
    /\ iterations_run <= problem.const_after + 1 + options.stuck_run_iterations_count
    /\ iterations_run <= options.maximum_iterations

\* C4 witness: a run that stopped by stagnation exactly k + 1 + stuck
\* iterations in, for a cutoff k >= 1.
C4_Witness ==
    /\ pc = "returned"
    /\ problem.const_after >= 1
    /\ options.stuck_run_iterations_count >= 1
    /\ iterations_run = problem.const_after + 1 + options.stuck_run_iterations_count
    /\ iterations_since_improvement = options.stuck_run_iterations_count

\* C5: perform_iteration reports new_global_minimum iff it replaced the best
\* solution, i.e. iff some firefly of the new generation beats the previous
\* best (or there was none); the first iteration of a non-empty swarm reports
\* true; an iteration nobody beats the best in reports false and leaves it.
C5_NewGlobalMinimum ==
    [][IterationStep =>
        LET beats == IF best_solution = None
                     THEN Len(fireflies') >= 1
                     ELSE \E k \in Indices(fireflies') :
                            Value(fireflies'[k]) < best_solution.value
        IN  /\ result' <=> best_solution' # best_solution
            /\ result' <=> beats
            /\ iterations_run = 0 /\ options.swarm_size >= 1 => result'
            /\ ~beats => best_solution' = best_solution]_vars

\* C5 witness: an iteration after the first that moved the swarm's values and
\* found no new best.
C5_Witness ==
    /\ iterations_run >= 2
    /\ ~result
    /\ options.swarm_size >= 2
    /\ \E k \in Indices(fireflies) : Value(fireflies[k]) > best_solution.value

\* C6: the swarm holds exactly swarm_size fireflies after initialize and after
\* every perform_iteration, and neither size assertion of perform_iteration fails.
C6_SwarmSize ==
    /\ pc # "panicked"
    /\ Initialized =>
        /\ Len(fireflies) = options.swarm_size
        /\ Len(PerformIteration(fireflies, best_solution).swarm) = options.swarm_size

\* C6 witness: a full swarm after two iterations.
C6_Witness ==
    /\ pc = "loop"
    /\ iterations_run >= 2
    /\ Len(fireflies) = MaxSwarm

\* C7: after initialize and after every perform_iteration the swarm is in
\* non-increasing order of value: the brightest firefly is last and every
\* firefly strictly brighter than fireflies[i] stands after index i.
C7_SortedDescending ==
    Initialized =>
        /\ \A i \in Indices(fireflies) : \A j \in Indices(fireflies) :
              /\ i < j => Value(fireflies[i]) >= Value(fireflies[j])
              /\ Value(fireflies[j]) < Value(fireflies[i]) => j > i
        /\ fireflies # <<>> => Value(fireflies[Len(fireflies)]) = MinValue(fireflies)

\* C7 witness: a swarm of three different values after an iteration.
C7_Witness ==
    /\ iterations_run >= 1
    /\ Len(fireflies) >= 3
    /\ Value(fireflies[1]) > Value(fireflies[2])
    /\ Value(fireflies[2]) > Value(fireflies[3])

\* C8: a firefly with no strictly brighter neighbour is carried into the next
\* generation unchanged; with swarm_size = 1 move_towards is never applied,
\* the firefly never changes, only the first iteration reports a new best and
\* the run performs exactly min(maximum_iterations, 1 + stuck_run_iterations_count)
\* iterations.
C8_NoBrighterNeighbour ==
    /\ [][IterationStep =>
            /\ \A i \in Indices(fireflies) :
                  (\A j \in Indices(fireflies) : ~(Value(fireflies[j]) < Value(fireflies[i])))
                      => Copies(fireflies', fireflies[i]) >= Copies(fireflies, fireflies[i])
            /\ options.swarm_size = 1 =>
                  /\ fireflies' = fireflies
                  /\ result' <=> iterations_run = 0]_vars
    /\ [](Initialized /\ options.swarm_size = 1 =>
            PerformIteration(fireflies, best_solution).calls = << <<>> >>)
    /\ [](pc = "returned" /\ options.swarm_size = 1 =>
            iterations_run =
                Min2(options.maximum_iterations, 1 + options.stuck_run_iterations_count))

\* C8 witness: two equally bright fireflies at different positions lead a
\* swarm in which a dimmer one is attracted.
C8_Witness ==
    /\ pc = "loop"
    /\ iterations_run >= 1
    /\ Len(fireflies) >= 3
    /\ Value(fireflies[Len(fireflies)]) = Value(fireflies[Len(fireflies) - 1])
    /\ fireflies[Len(fireflies)].position # fireflies[Len(fireflies) - 1].position
    /\ Value(fireflies[1]) > Value(fireflies[Len(fireflies)])

\* The scan the optimization replaces: every other firefly of the snapshot, in
\* index order, with the same strict test.
RECURSIVE FullScanFrom(_, _, _, _)
FullScanFrom(snapshot, i, w, j) ==
    IF j > Len(snapshot) THEN w
    ELSE WithValue(IF j # i /\ Value(snapshot[j]) < Value(w.firefly)
                   THEN [firefly |-> MoveTowards(w.firefly, snapshot[j]),
                         calls |-> Append(w.calls, j)]
                   ELSE w,
                   LAMBDA moved : FullScanFrom(snapshot, i, moved, j + 1))

\* C9: scanning only the fireflies after index i makes the same move_towards
\* calls, and finalizes the same firefly, as scanning every other firefly of
\* the snapshot in index order.
C9_SkipLosesNoAttraction ==
    Initialized =>
        \A i \in Indices(fireflies) :
            NewMainFirefly(fireflies, i) =
                FullScanFrom(fireflies, i, [firefly |-> fireflies[i], calls |-> <<>>], 1)

\* C9 witness: a swarm whose first firefly is attracted twice in a row and
\* whose second firefly is attracted too.
C9_Witness ==
    /\ pc = "loop"
    /\ Len(fireflies) >= 3
    /\ Len(NewMainFirefly(fireflies, 1).calls) >= 2
    /\ Len(NewMainFirefly(fireflies, 2).calls) >= 1

\* C10: the last firefly is never moved, the lowest value in the swarm never
\* increases from one generation to the next, and after every iteration of a
\* non-empty swarm the best-known value is the value of the last firefly, the
\* lowest in the swarm.
C10_Elitism ==
    /\ [](Initialized /\ options.swarm_size >= 1 =>
            /\ NewMainFirefly(fireflies, Len(fireflies)).firefly = fireflies[Len(fireflies)]
            /\ iterations_run >= 1 =>
                  /\ best_solution # None
                  /\ best_solution.value = Value(fireflies[Len(fireflies)])
                  /\ best_solution.value = MinValue(fireflies))
    /\ [][IterationStep /\ options.swarm_size >= 1 =>
            MinValue(fireflies') <= MinValue(fireflies)]_vars

\* C10 witness: the best after an iteration is a value the first iteration
\* did not have in its swarm's last place alone: the swarm's minimum dropped.
C10_Witness ==
    /\ iterations_run >= 2
    /\ result
    /\ Len(fireflies) >= 2
    /\ best_solution.value = Value(fireflies[Len(fireflies)])
    /\ Value(fireflies[1]) > Value(fireflies[Len(fireflies)])

====
